---- MODULE Spec2Model ----
(***************************************************************************)
(* The session lifecycle engine of annotation-backend/main.py: ingest      *)
(* (upload_video), the session store listing, the correction operations    *)
(* (add_person, move_image, delete_image, rename_person) and promotion     *)
(* (confirm_session), over a model of the directory tree they act on.      *)
(*                                                                         *)
(* A Python str is a sequence of one-character strings, so that split,     *)
(* startswith, strip, replace, splitext, int(), str() and sorted() are     *)
(* computed the way the code computes them.  A path is the sequence of its *)
(* components below the filesystem root.                                   *)
(***************************************************************************)
EXTENDS Integers, Sequences, FiniteSets, TLC

VARIABLES
    fs,        \* the directory tree: resolved path -> node (directory or file)
    model,     \* the process-wide detector: "none", "track" or "detect"
    issued,    \* the session ids uuid4 has produced so far
    req,       \* the request being answered, op "idle" when there is none
    resp,      \* its response, on its way to the client
    pre,       \* the directory tree as it was when that request arrived
    deleted,   \* the image URIs a delete_image has answered with success
    promoted,  \* the session ids a confirm_session has answered with success
    nchanges,  \* how many requests have changed the directory tree
    failures,  \* the session ids whose upload_video has answered with a failure
    calls      \* the handlers running in worker threads, each at its position

vars == <<fs, model, issued, req, resp, pre, deleted, promoted, nchanges, failures, calls>>

(***************************************************************************)
(* Bounds of the exploration.                                              *)
(***************************************************************************)
\* uploads explored (one session id each)
MaxSessions == 2
\* requests after which the tree differs from before, uploads not counted
MaxChanges == 2

(***************************************************************************)
(* str                                                                     *)
(***************************************************************************)
\* the characters that occur, in code point order
Alphabet ==
    << " ", "-", ".", "/", "0", "1", "2", "3", "4", "5", "6", "7", "8", "9",
       "_", "a", "b", "c", "d", "e", "f", "g", "h", "i", "j", "k", "l", "m",
       "n", "o", "p", "q", "r", "s", "t", "u", "v", "w", "x", "y", "z" >>

Ord(c) == CHOOSE i \in 1..Len(Alphabet) : Alphabet[i] = c

Digits == <<"0", "1", "2", "3", "4", "5", "6", "7", "8", "9">>

IsDigit(c) == \E i \in 1..10 : Digits[i] = c

DigitVal(c) == (CHOOSE i \in 1..10 : Digits[i] = c) - 1

\* str(n) and the {n} of an f-string, n >= 0
RECURSIVE Str(_)
Str(n) == IF n < 10 THEN <<Digits[n + 1]>>
          ELSE Str(n \div 10) \o <<Digits[(n % 10) + 1]>>

\* s.startswith(p)
StartsWith(s, p) == Len(s) >= Len(p) /\ SubSeq(s, 1, Len(p)) = p

\* s.split(c): the pieces between the occurrences of the character c
RECURSIVE SplitAcc(_, _, _)
SplitAcc(s, c, cur) ==
    IF s = <<>> THEN <<cur>>
    ELSE IF Head(s) = c THEN <<cur>> \o SplitAcc(Tail(s), c, <<>>)
    ELSE SplitAcc(Tail(s), c, Append(cur, Head(s)))

Split(s, c) == SplitAcc(s, c, <<>>)

\* s.strip(): leading and trailing blanks removed
RECURSIVE LStrip(_)
LStrip(s) == IF s # <<>> /\ Head(s) = " " THEN LStrip(Tail(s)) ELSE s

RECURSIVE RStrip(_)
RStrip(s) == IF s # <<>> /\ s[Len(s)] = " " THEN RStrip(SubSeq(s, 1, Len(s) - 1)) ELSE s

Strip(s) == RStrip(LStrip(s))

\* s.replace(a, b) for single characters
Replace(s, a, b) == [i \in 1..Len(s) |-> IF s[i] = a THEN b ELSE s[i]]

\* int(s): blanks stripped, an optional sign, then one or more digits
IntBody(s) == LET t == Strip(s) IN IF t # <<>> /\ Head(t) \in {"-", "+"} THEN Tail(t) ELSE t

IsInt(s) == IntBody(s) # <<>> /\ \A i \in 1..Len(IntBody(s)) : IsDigit(IntBody(s)[i])

RECURSIVE DigitsVal(_)
DigitsVal(s) == IF s = <<>> THEN 0
                ELSE 10 * DigitsVal(SubSeq(s, 1, Len(s) - 1)) + DigitVal(s[Len(s)])

IntOf(s) == IF Head(Strip(s)) = "-" THEN 0 - DigitsVal(IntBody(s)) ELSE DigitsVal(IntBody(s))

\* a < b as Python compares str: by code point, a proper prefix first
RECURSIVE StrLess(_, _)
StrLess(a, b) ==
    IF b = <<>> THEN FALSE
    ELSE IF a = <<>> THEN TRUE
    ELSE IF Head(a) = Head(b) THEN StrLess(Tail(a), Tail(b))
    ELSE Ord(Head(a)) < Ord(Head(b))

\* sorted(S) for a set of str
RECURSIVE Sorted(_)
Sorted(S) ==
    IF S = {} THEN <<>>
    ELSE LET m == CHOOSE x \in S : \A y \in S \ {x} : StrLess(x, y)
         IN <<m>> \o Sorted(S \ {m})

\* os.path.splitext(name): the extension starts at the last dot that has a
\* character other than a dot before it
LastDot(s) == IF \E i \in 1..Len(s) : s[i] = "."
              THEN CHOOSE i \in 1..Len(s) : s[i] = "." /\ \A j \in (i + 1)..Len(s) : s[j] # "."
              ELSE 0

SplitExt(s) ==
    LET d == LastDot(s) IN
    IF d > 0 /\ \E j \in 1..(d - 1) : s[j] # "."
    THEN <<SubSeq(s, 1, d - 1), SubSeq(s, d, Len(s))>>
    ELSE <<s, <<>>>>

\* "/".join(parts)
RECURSIVE JoinSlash(_)
JoinSlash(parts) ==
    IF parts = <<>> THEN <<>>
    ELSE IF Len(parts) = 1 THEN parts[1]
    ELSE parts[1] \o <<"/">> \o JoinSlash(Tail(parts))

(***************************************************************************)
(* The directory tree.  A node is a record; kind "dir" is a directory, any *)
(* other kind a regular file with that content.  The filesystem root <<>>  *)
(* is the directory that holds annotation-backend and annotation-frontend. *)
(***************************************************************************)
Node(k, s, n, d, m) == [kind |-> k, sid |-> s, frame |-> n, det |-> d, map |-> m]

DirNode == Node("dir", <<>>, 0, 0, <<>>)

\* the pixels of one crop: which upload, which frame, which detection of it
Crop(sid, n, d) == Node("crop", sid, n, d, <<>>)

DotDot == <<".", ".">>

Dot == <<".">>

Parent(p) == IF p = <<>> THEN <<>> ELSE SubSeq(p, 1, Len(p) - 1)

IsPrefix(a, p) == Len(a) <= Len(p) /\ SubSeq(p, 1, Len(a)) = a

IsDir(f, p) == p \in DOMAIN f /\ f[p].kind = "dir"

IsFile(f, p) == p \in DOMAIN f /\ f[p].kind # "dir"

Children(f, p) == {q \in DOMAIN f : Len(q) = Len(p) + 1 /\ IsPrefix(p, q)}

\* pathlib: base / s.  The components of s are appended, "" and "." dropped,
\* ".." kept; an s that starts with "/" replaces base.
Segments(s) == SelectSeq(Split(s, "/"), LAMBDA x : x # <<>> /\ x # Dot)

PathJoin(base, s) ==
    IF s # <<>> /\ Head(s) = "/" THEN Segments(s) ELSE base \o Segments(s)

\* How the kernel resolves the components of a path: every component is
\* looked up in a directory that must exist, ".." steps to the parent.
RECURSIVE WalkFrom(_, _, _)
WalkFrom(f, cur, parts) ==
    IF parts = <<>> THEN [err |-> "", path |-> cur]
    ELSE IF cur \notin DOMAIN f THEN [err |-> "ENOENT", path |-> cur]
    ELSE IF f[cur].kind # "dir" THEN [err |-> "ENOTDIR", path |-> cur]
    ELSE WalkFrom(f,
                  IF Head(parts) = DotDot THEN Parent(cur) ELSE Append(cur, Head(parts)),
                  Tail(parts))

Lookup(f, parts) == WalkFrom(f, <<>>, parts)

\* Path.resolve() of a path whose directories exist
Resolve(f, parts) == Lookup(f, parts).path

\* Path.exists(), Path.is_dir(), Path.is_file()
Exists(f, parts) == Lookup(f, parts).err = "" /\ Lookup(f, parts).path \in DOMAIN f

PathIsDir(f, parts) == Lookup(f, parts).err = "" /\ IsDir(f, Lookup(f, parts).path)

PathIsFile(f, parts) == Lookup(f, parts).err = "" /\ IsFile(f, Lookup(f, parts).path)

Ok(f) == [err |-> "", fs |-> f]

Fail(e, f) == [err |-> e, fs |-> f]

\* os.mkdir(path)
OsMkdir(f, parts) ==
    IF parts = <<>> THEN Fail("EEXIST", f)
    ELSE LET w == Lookup(f, Parent(parts))
             last == parts[Len(parts)]
             target == Append(w.path, last)
         IN IF w.err # "" THEN Fail(w.err, f)
            ELSE IF w.path \notin DOMAIN f THEN Fail("ENOENT", f)
            ELSE IF f[w.path].kind # "dir" THEN Fail("ENOTDIR", f)
            ELSE IF last = DotDot \/ target \in DOMAIN f THEN Fail("EEXIST", f)
            ELSE Ok([q \in DOMAIN f \cup {target} |-> IF q = target THEN DirNode ELSE f[q]])

\* Path.mkdir(parents=True, exist_ok=exist_ok)
RECURSIVE Mkdir(_, _, _)
Mkdir(f, parts, exist_ok) ==
    LET \* the second os.mkdir, after the parents were made
        Retried(up, r2) ==
            IF r2.err = "" THEN r2
            ELSE IF r2.err # "ENOENT" /\ exist_ok /\ PathIsDir(up.fs, parts) THEN Ok(up.fs)
            ELSE Fail(r2.err, up.fs)
        WithParents(up) == IF up.err # "" THEN up ELSE Retried(up, OsMkdir(up.fs, parts))
        \* r is what the first os.mkdir did
        Tried(r) ==
            IF r.err = "" THEN r
            ELSE IF r.err = "ENOENT"
            THEN IF parts = <<>> THEN r ELSE WithParents(Mkdir(f, Parent(parts), TRUE))
            ELSE IF exist_ok /\ PathIsDir(f, parts) THEN Ok(f) ELSE r
    IN Tried(OsMkdir(f, parts))

\* the subtree at a relocated to b; whatever was at b is replaced
MoveTree(f, a, b) ==
    LET keep == {p \in DOMAIN f : ~IsPrefix(a, p) /\ ~IsPrefix(b, p)}
        moved == {b \o SubSeq(p, Len(a) + 1, Len(p)) : p \in {q \in DOMAIN f : IsPrefix(a, q)}}
    IN [q \in keep \cup moved |->
           IF q \in moved THEN f[a \o SubSeq(q, Len(b) + 1, Len(q))] ELSE f[q]]

\* os.rename(src, dst)
OsRename(f, src, dst) ==
    LET s == Lookup(f, src)
        d == Lookup(f, dst)
    IN IF s.err # "" THEN Fail(s.err, f)
       ELSE IF s.path \notin DOMAIN f THEN Fail("ENOENT", f)
       ELSE IF d.err # "" THEN Fail(d.err, f)
       ELSE IF d.path = s.path THEN Ok(f)
       ELSE IF IsPrefix(s.path, d.path) THEN Fail("EINVAL", f)
       ELSE IF IsPrefix(d.path, s.path) THEN Fail("ENOTEMPTY", f)
       ELSE IF ~IsDir(f, Parent(d.path)) THEN Fail("ENOENT", f)
       ELSE IF IsDir(f, s.path) /\ IsFile(f, d.path) THEN Fail("ENOTDIR", f)
       ELSE IF IsFile(f, s.path) /\ IsDir(f, d.path) THEN Fail("EISDIR", f)
       ELSE IF IsDir(f, d.path) /\ Children(f, d.path) # {} THEN Fail("ENOTEMPTY", f)
       ELSE Ok(MoveTree(f, s.path, d.path))

\* shutil.move(src, dst): into dst when dst is a directory, else os.rename,
\* and copy-then-delete when the rename is refused
ShutilMove(f, src, dst) ==
    LET intoDir == PathIsDir(f, dst) /\ Resolve(f, src) # Resolve(f, dst)
        real_dst == IF intoDir /\ src # <<>> THEN Append(dst, src[Len(src)]) ELSE dst
        \* copytree then rmtree, mk being what made the destination folder
        Copied(mk) ==
            IF mk.err # "" THEN mk
            ELSE Ok(MoveTree(mk.fs, Resolve(mk.fs, src), Resolve(mk.fs, real_dst)))
        \* r is what os.rename did
        Renamed(r) ==
            IF intoDir /\ Exists(f, real_dst) THEN Fail("Error", f)
            ELSE IF r.err = "" THEN r
            ELSE IF PathIsDir(f, src)
            THEN IF IsPrefix(Resolve(f, src), Resolve(f, real_dst)) THEN Fail("Error", f)
                 ELSE Copied(Mkdir(f, real_dst, FALSE))
            ELSE r
    IN Renamed(OsRename(f, src, real_dst))

\* os.unlink(path)
OsUnlink(f, parts) ==
    LET w == Lookup(f, parts) IN
    IF w.err # "" THEN Fail(w.err, f)
    ELSE IF w.path \notin DOMAIN f THEN Fail("ENOENT", f)
    ELSE IF f[w.path].kind = "dir" THEN Fail("EISDIR", f)
    ELSE Ok([q \in DOMAIN f \ {w.path} |-> f[q]])

\* shutil.rmtree(path, ignore_errors=True)
Rmtree(f, parts) ==
    LET w == Lookup(f, parts) IN
    IF w.err # "" \/ w.path \notin DOMAIN f \/ w.path = <<>> THEN f
    ELSE [q \in {p \in DOMAIN f : ~IsPrefix(w.path, p)} |-> f[q]]

\* open(path, "w") followed by a write of data
WriteFile(f, parts, data) ==
    LET w == Lookup(f, parts) IN
    IF w.err # "" THEN Fail(w.err, f)
    ELSE IF IsDir(f, w.path) THEN Fail("EISDIR", f)
    ELSE IF ~IsDir(f, Parent(w.path)) THEN Fail("ENOENT", f)
    ELSE Ok([q \in DOMAIN f \cup {w.path} |-> IF q = w.path THEN data ELSE f[q]])

(***************************************************************************)
(* Path configuration (main.py, lines 24-36).                              *)
(***************************************************************************)
chars_annotation == <<"a", "n", "n", "o", "t", "a", "t", "i", "o", "n">>

BACKEND_DIR == << chars_annotation \o <<"-", "b", "a", "c", "k", "e", "n", "d">> >>

FRONTEND_DIR == << chars_annotation \o <<"-", "f", "r", "o", "n", "t", "e", "n", "d">> >>

UPLOADS_DIR == Append(BACKEND_DIR, <<"u", "p", "l", "o", "a", "d", "s">>)

ANNOTATIONS_DIR == Append(BACKEND_DIR, chars_annotation \o <<"s">>)

PERSONS_DB == Append(BACKEND_DIR, <<"p", "e", "r", "s", "o", "n", "s">>)

TEMP_ROOT == Append(FRONTEND_DIR, <<"t", "e", "m", "p">>)

STATIC_DIR == Append(FRONTEND_DIR, <<"s", "t", "a", "t", "i", "c">>)

TEMPLATES_DIR == Append(FRONTEND_DIR, <<"t", "e", "m", "p", "l", "a", "t", "e", "s">>)

\* the template that ui() renders
index_html == Append(TEMPLATES_DIR, <<"i", "n", "d", "e", "x", ".", "h", "t", "m", "l">>)

\* string constants of the handlers
s_temp == <<"/", "t", "e", "m", "p", "/">>

s_person_ == <<"p", "e", "r", "s", "o", "n", "_">>

s_database_ == <<"d", "a", "t", "a", "b", "a", "s", "e", "_">>

s_jpg == <<".", "j", "p", "g">>

s_mp4 == <<".", "m", "p", "4">>

s_annotation_json == chars_annotation \o <<".", "j", "s", "o", "n">>

s_summary_json == <<"_", "s", "u", "m", "m", "a", "r", "y", ".", "j", "s", "o", "n">>

s_persons_url == <<"/", "p", "e", "r", "s", "o", "n", "s", "/">>

\* the tree after the module is imported: the six directories exist
RECURSIVE MkdirAll(_, _)
MkdirAll(f, dirs) ==
    IF dirs = <<>> THEN f ELSE MkdirAll(Mkdir(f, Head(dirs), TRUE).fs, Tail(dirs))

InitialTree ==
    LET root == [q \in {<<>>} |-> DirNode]
        made == MkdirAll(root, <<UPLOADS_DIR, ANNOTATIONS_DIR, PERSONS_DB, TEMP_ROOT,
                                 STATIC_DIR, TEMPLATES_DIR>>)
    IN WriteFile(made, index_html, Node("asset", <<>>, 0, 0, <<>>)).fs

(***************************************************************************)
(* Helpers (main.py, lines 77-97).                                         *)
(***************************************************************************)
\* A response: status, detail of an HTTPException, and the JSON body as its
\* string, its group map and its list of names.
Response(st, detail, f, str, persons, names) ==
    [status |-> st, detail |-> detail, fs |-> f, str |-> str, persons |-> persons,
     names |-> names]

HTTPException(st, detail, f) == Response(st, detail, f, <<>>, <<>>, {})

\* an exception no handler catches
ServerError(f) == HTTPException(500, "Internal Server Error", f)

\* safe_temp_session_path: the resolved session path, refused when it does
\* not start with the resolved temp root.  No handler calls it.
RECURSIVE Normalize(_, _)
Normalize(done, parts) ==
    IF parts = <<>> THEN done
    ELSE Normalize(IF Head(parts) = DotDot THEN Parent(done) ELSE Append(done, Head(parts)),
                   Tail(parts))

safe_temp_session_path(session_id) ==
    LET path == Normalize(<<>>, PathJoin(TEMP_ROOT, session_id)) IN
    IF ~StartsWith(<<"/">> \o JoinSlash(path), <<"/">> \o JoinSlash(Normalize(<<>>, TEMP_ROOT)))
    THEN [status |-> 400, path |-> path]
    ELSE [status |-> 200, path |-> path]

\* the names of the entries of a directory (iterdir)
EntryNames(f, dir) == {q[Len(q)] : q \in Children(f, Resolve(f, dir))}

\* f"/temp/{session_id}/{group}/{name}"
WebPath(session_id, group, name) ==
    s_temp \o session_id \o <<"/">> \o group \o <<"/">> \o name

\* the image list of one group folder: its regular files, sorted
GroupImages(f, session_id, session_folder, group) ==
    LET folder == Append(session_folder, group)
        files == {n \in EntryNames(f, folder) : PathIsFile(f, Append(folder, n))}
        names == Sorted(files)
    IN [i \in 1..Len(names) |-> WebPath(session_id, group, names[i])]

\* a listing read from the snapshot annotation.json instead of the directory
list_session_persons_FromSnapshot(f, session_id) ==
    LET session_folder == PathJoin(TEMP_ROOT, session_id)
        ann_file == Resolve(f, PathJoin(session_folder, s_annotation_json))
    IN IF ~Exists(f, session_folder) THEN HTTPException(404, "Session not found", f)
       ELSE Response(200, "", f, session_id,
                     IF ann_file \in DOMAIN f THEN f[ann_file].map ELSE <<>>, {})

list_session_persons(f, session_id) ==
    LET session_folder == PathJoin(TEMP_ROOT, session_id)
        groups == Sorted({n \in EntryNames(f, session_folder) :
                             PathIsDir(f, Append(session_folder, n))})
    IN IF ~Exists(f, session_folder) THEN HTTPException(404, "Session not found", f)
       ELSE IF ~PathIsDir(f, session_folder) THEN ServerError(f)
       ELSE Response(200, "", f, session_id,
                     [i \in 1..Len(groups) |->
                         <<groups[i], GroupImages(f, session_id, session_folder, groups[i])>>],
                     {})

(***************************************************************************)
(* upload_video (main.py, lines 103-284).                                  *)
(*                                                                         *)
(* What the detector and the decoder hand to the pipeline is the input: a  *)
(* video is a sequence of events, one per frame.  An event tells whether   *)
(* getting it raises (the stream of model.track, or the call model(...)),  *)
(* whether the frame image and the boxes are there, the frame size and the *)
(* detections: track id, class, and the box or its failure to convert.     *)
(***************************************************************************)
MIN_BOX_AREA == 25 * 25

SAMPLE_EVERY_N_FRAMES == 1

Det(tid, cls, ok, box) == [tid |-> tid, cls |-> cls, ok |-> ok, box |-> box]

Event(raises, img, boxes, w, h, dets) ==
    [raises |-> raises, img |-> img, boxes |-> boxes, w |-> w, h |-> h, dets |-> dets]

Max(a, b) == IF a > b THEN a ELSE b

Min(a, b) == IF a < b THEN a ELSE b

\* max(0, min(v, limit - 1))
Clamp(v, limit) == Max(0, Min(v, limit - 1))

\* the box after clamping: kept when it is not empty and not tiny
Accepted(box, w, h) ==
    LET x1 == Clamp(box[1], w)
        y1 == Clamp(box[2], h)
        x2 == Clamp(box[3], w)
        y2 == Clamp(box[4], h)
    IN ~(x2 <= x1 \/ y2 <= y1) /\ ~((x2 - x1) * (y2 - y1) < MIN_BOX_AREA)

\* person_map.setdefault(key, []).append(web), the dict in insertion order
SetDefaultAppend(m, key, web) ==
    IF \E i \in 1..Len(m) : m[i][1] = key
    THEN [i \in 1..Len(m) |-> IF m[i][1] = key THEN <<key, Append(m[i][2], web)>> ELSE m[i]]
    ELSE Append(m, <<key, <<web>>>>)

\* cv2.imwrite: writes the file, or returns False without raising
ImWrite(f, parts, data) == WriteFile(f, parts, data).fs

\* The pipeline's running state: tree, map, counters, and err, which is ""
\* while running, "frame" when the current frame was abandoned and "fatal"
\* when an exception left the loop.
Running(f, m, frame_idx, next_pid, err) ==
    [fs |-> f, person_map |-> m, frame_idx |-> frame_idx, next_pid |-> next_pid, err |-> err]

\* a helper that records the URI and leaves the crop unwritten
save_crop_and_map_MapOnly(st, session_id, person_key, crop, fname) ==
    [st EXCEPT !.person_map = SetDefaultAppend(st.person_map, person_key,
                                               WebPath(session_id, person_key, fname))]

save_crop_and_map(st, session_id, person_key, crop, fname) ==
    LET folder == PathJoin(PathJoin(TEMP_ROOT, session_id), person_key)
        web == WebPath(session_id, person_key, fname)
        \* mk is what folder.mkdir did
        Made(mk) ==
            IF mk.err # "" THEN [st EXCEPT !.fs = mk.fs, !.err = "raised"]
            ELSE [st EXCEPT !.fs = ImWrite(mk.fs, PathJoin(folder, fname), crop),
                            !.person_map = SetDefaultAppend(st.person_map, person_key, web)]
    IN Made(Mkdir(st.fs, folder, TRUE))

\* a tracking branch that names the group after the position of the box in
\* the result, not after its track id
RECURSIVE TrackedDets_ByPosition(_, _, _, _)
TrackedDets_ByPosition(st, session_id, ev, i) ==
    IF i > Len(ev.dets) \/ st.err # "" THEN st
    ELSE IF ~ev.dets[i].ok \/ ~Accepted(ev.dets[i].box, ev.w, ev.h)
    THEN TrackedDets_ByPosition(st, session_id, ev, i + 1)
    ELSE TrackedDets_ByPosition(
             save_crop_and_map(st, session_id, s_person_ \o Str(i - 1),
                               Crop(session_id, st.frame_idx, i),
                               <<"f">> \o Str(st.frame_idx) \o <<"_", "i", "d">>
                                   \o Str(ev.dets[i].tid) \o s_jpg),
             session_id, ev, i + 1)

\* tracking branch, lines 198-216: the detections of one result, from the i-th
RECURSIVE TrackedDets(_, _, _, _)
TrackedDets(st, session_id, ev, i) ==
    IF i > Len(ev.dets) \/ st.err # "" THEN st
    ELSE LET d == ev.dets[i]
             person_key == s_person_ \o Str(d.tid)
             fname == <<"f">> \o Str(st.frame_idx) \o <<"_", "i", "d">> \o Str(d.tid) \o s_jpg
         IN IF ~d.ok \/ ~Accepted(d.box, ev.w, ev.h)
            THEN TrackedDets(st, session_id, ev, i + 1)
            ELSE TrackedDets(save_crop_and_map(st, session_id, person_key,
                                               Crop(session_id, st.frame_idx, i), fname),
                             session_id, ev, i + 1)

\* tracking branch, lines 165-221: one result of the stream.  An exception in
\* the body is caught per frame; the frame index advances in every case.
TrackedFrame(st, session_id, ev) ==
    IF ~ev.img \/ ~ev.boxes THEN [st EXCEPT !.frame_idx = st.frame_idx + 1]
    ELSE LET after == TrackedDets(st, session_id, ev, 1)
         IN [after EXCEPT !.frame_idx = st.frame_idx + 1, !.err = ""]

\* a fallback branch that allocates one group per frame, not per detection
RECURSIVE DetectedDets_GroupPerFrame(_, _, _, _)
DetectedDets_GroupPerFrame(st, session_id, ev, i) ==
    IF i > Len(ev.dets) \/ st.err # "" THEN st
    ELSE IF ~ev.dets[i].ok \/ ev.dets[i].cls # 0 \/ ~Accepted(ev.dets[i].box, ev.w, ev.h)
    THEN DetectedDets_GroupPerFrame(st, session_id, ev, i + 1)
    ELSE DetectedDets_GroupPerFrame(
             save_crop_and_map(st, session_id, s_person_ \o Str(st.frame_idx),
                               Crop(session_id, st.frame_idx, i),
                               <<"f">> \o Str(st.frame_idx) \o <<"_", "p">>
                                   \o Str(i - 1) \o s_jpg),
             session_id, ev, i + 1)

\* fallback branch, lines 241-261: the boxes of one frame, from the i-th
RECURSIVE DetectedDets(_, _, _, _)
DetectedDets(st, session_id, ev, i) ==
    IF i > Len(ev.dets) \/ st.err # "" THEN st
    ELSE LET d == ev.dets[i]
             person_key == s_person_ \o Str(st.next_pid)
             fname == <<"f">> \o Str(st.frame_idx) \o <<"_", "p">> \o Str(st.next_pid) \o s_jpg
             \* next_pid += 1 once the crop is saved
             Counted(saved) ==
                 IF saved.err # "" THEN saved ELSE [saved EXCEPT !.next_pid = st.next_pid + 1]
         IN IF ~d.ok \/ d.cls # 0 \/ ~Accepted(d.box, ev.w, ev.h)
            THEN DetectedDets(st, session_id, ev, i + 1)
            ELSE DetectedDets(Counted(save_crop_and_map(st, session_id, person_key,
                                                        Crop(session_id, st.frame_idx, i),
                                                        fname)),
                              session_id, ev, i + 1)

\* fallback branch, lines 233-262: one decoded frame.  The frame is written
\* to the session folder for the detector; nothing here is caught per frame.
DetectedFrame(st, session_id, ev) ==
    LET tmp_frame_path == PathJoin(PathJoin(TEMP_ROOT, session_id),
                                   <<"f", "r", "a", "m", "e", "_">> \o Str(st.frame_idx) \o s_jpg)
        Advanced(after) ==
            IF after.err # "" THEN after ELSE [after EXCEPT !.frame_idx = st.frame_idx + 1]
        \* written is the state once the frame is on disk
        Detected(written) ==
            IF ev.raises THEN [written EXCEPT !.err = "raised"]
            ELSE IF ~ev.boxes THEN [written EXCEPT !.frame_idx = st.frame_idx + 1]
            ELSE Advanced(DetectedDets(written, session_id, ev, 1))
    IN IF st.frame_idx % SAMPLE_EVERY_N_FRAMES # 0
       THEN [st EXCEPT !.frame_idx = st.frame_idx + 1]
       ELSE Detected([st EXCEPT !.fs = ImWrite(st.fs, tmp_frame_path,
                                               Node("frame", session_id, st.frame_idx, 0, <<>>))])

\* the loop over the video, lines 165-221 or 229-262, from its i-th event
RECURSIVE Frames(_, _, _, _, _)
Frames(st, session_id, use_tracking, video, i) ==
    IF i > Len(video) \/ st.err # "" THEN st
    ELSE IF use_tracking
    THEN IF video[i].raises THEN [st EXCEPT !.err = "raised"]
         ELSE Frames(TrackedFrame(st, session_id, video[i]), session_id, use_tracking, video, i + 1)
    ELSE Frames(DetectedFrame(st, session_id, video[i]), session_id, use_tracking, video, i + 1)

\* lines 130-284: the detector is there; run it, write the snapshot and the
\* summary, or remove the session folder and report the failure
IngestVideo(f, mdl, session_id, video) ==
    LET session_temp == PathJoin(TEMP_ROOT, session_id)
        failed(g) == HTTPException(500, "Processing failed", Rmtree(g, session_temp))
        \* lines 270-275: the summary is written, the map returned
        Summarized(ran, summary) ==
            IF summary.err # "" THEN failed(summary.fs)
            ELSE Response(200, "", summary.fs, session_id, ran.person_map, {})
        \* lines 265-273: ann is what writing annotation.json did
        Annotated(ran, ann) ==
            IF ann.err # "" THEN failed(ann.fs)
            ELSE Summarized(ran, WriteFile(ann.fs,
                                           PathJoin(ANNOTATIONS_DIR, session_id \o s_summary_json),
                                           Node("json", session_id, 0, 0, ran.person_map)))
        \* ran is the state the loop over the video ended in
        Ran(ran) ==
            IF ran.err # "" THEN failed(ran.fs)
            ELSE Annotated(ran, WriteFile(ran.fs, PathJoin(session_temp, s_annotation_json),
                                          Node("json", <<>>, 0, 0, ran.person_map)))
    IN Ran(Frames(Running(f, <<>>, 0, 0, ""), session_id, mdl = "track", video, 1))

\* an upload that makes the session folder only once the detector is there
UploadVideo_FolderWithModel(f, mdl, session_id, video) ==
    LET upload_path == PathJoin(UPLOADS_DIR, session_id \o s_mp4)
        Made(made) ==
            IF made.err # "" THEN ServerError(made.fs)
            ELSE IngestVideo(made.fs, mdl, session_id, video)
        Saved(saved) ==
            IF saved.err # "" THEN ServerError(saved.fs)
            ELSE IF mdl = "none" THEN Response(200, "", saved.fs, session_id, <<>>, {})
            ELSE Made(Mkdir(saved.fs, PathJoin(TEMP_ROOT, session_id), TRUE))
    IN Saved(WriteFile(f, upload_path, Node("video", session_id, 0, 0, <<>>)))

\* the handler, given the id uuid4 produced and what the video yields
UploadVideo(f, mdl, session_id, video) ==
    LET upload_path == PathJoin(UPLOADS_DIR, session_id \o s_mp4)
        \* lines 117-128: made is what session_temp.mkdir did
        Made(made) ==
            IF made.err # "" THEN ServerError(made.fs)
            ELSE IF mdl = "none" THEN Response(200, "", made.fs, session_id, <<>>, {})
            ELSE IngestVideo(made.fs, mdl, session_id, video)
        \* lines 112-118: saved is what writing the upload did
        Saved(saved) ==
            IF saved.err # "" THEN ServerError(saved.fs)
            ELSE Made(Mkdir(saved.fs, PathJoin(TEMP_ROOT, session_id), TRUE))
    IN Saved(WriteFile(f, upload_path, Node("video", session_id, 0, 0, <<>>)))

(***************************************************************************)
(* Session helpers and human-in-the-loop endpoints (main.py, 290-414).     *)
(***************************************************************************)
get_session_persons(f, session_id) == list_session_persons(f, session_id)

list_sessions(f) ==
    Response(200, "", f, <<>>, <<>>,
             {n \in EntryNames(f, TEMP_ROOT) : PathIsDir(f, Append(TEMP_ROOT, n))})

\* an index taken from the names that are exactly <prefix><digits>
NextIndex_ExactNames(names, prefix, start) ==
    LET ns == {IntOf(Split(e, "_")[2]) :
                  e \in {x \in names : /\ StartsWith(x, prefix)
                                       /\ Len(Split(x, "_")) = 2
                                       /\ IsInt(Split(x, "_")[2])}}
    IN IF ns = {} THEN start
       ELSE Max(start, 1 + (CHOOSE n \in ns : \A k \in ns : k <= n))

\* the next index after the entries whose name starts with prefix and whose
\* second "_"-separated field is an integer: max(start, n + 1 ...)
NextIndex(names, prefix, start) ==
    LET ns == {IntOf(Split(e, "_")[2]) :
                  e \in {x \in names : StartsWith(x, prefix) /\ IsInt(Split(x, "_")[2])}}
    IN IF ns = {} THEN start
       ELSE Max(start, 1 + (CHOOSE n \in ns : \A k \in ns : k <= n))

\* add_person, lines 311-323: the explicit name sanitized, or person_<idx>
NewPersonName(f, session_dir, name) ==
    IF name # <<>> THEN Replace(Strip(name), " ", "_")
    ELSE s_person_ \o Str(NextIndex({n \in EntryNames(f, session_dir) :
                                        PathIsDir(f, Append(session_dir, n))},
                                    s_person_, 0))

AddPerson(f, session_id, name) ==
    LET session_dir == PathJoin(TEMP_ROOT, session_id)
        \* lines 325-328: mk is what new_folder.mkdir did
        Made(new_name, mk) ==
            IF mk.err # "" THEN ServerError(mk.fs)
            ELSE Response(200, "", mk.fs, new_name, <<>>, {})
        \* lines 322-326
        Named(new_name, new_folder) ==
            IF Exists(f, new_folder) THEN HTTPException(400, "Person folder exists", f)
            ELSE Made(new_name, Mkdir(f, new_folder, FALSE))
        Chosen(new_name) == Named(new_name, PathJoin(session_dir, new_name))
    IN IF session_id = <<>> THEN HTTPException(400, "session_id required", f)
       ELSE IF ~Exists(f, session_dir) THEN HTTPException(404, "Session not found", f)
       ELSE IF name = <<>> /\ ~PathIsDir(f, session_dir) THEN ServerError(f)
       ELSE Chosen(NewPersonName(f, session_dir, name))

\* move_image, lines 349-352: the destination file; when the plain name is
\* taken, the name with "_" and six hex digits before the extension
DestFile(f, dest_folder_fs, filename, hex) ==
    IF Exists(f, PathJoin(dest_folder_fs, filename))
    THEN PathJoin(dest_folder_fs, SplitExt(filename)[1] \o <<"_">> \o hex \o SplitExt(filename)[2])
    ELSE PathJoin(dest_folder_fs, filename)

\* Path.name of a path
PathName(parts) == IF parts = <<>> THEN <<>> ELSE parts[Len(parts)]

\* a move_image that makes the destination folder before it looks for the source
MoveImage_MkdirFirst(f, src, dest_person, hex) ==
    LET parts == Split(src, "/")
        session_id == parts[3]
        filename == parts[Len(parts)]
        src_fs == PathJoin(PathJoin(PathJoin(TEMP_ROOT, session_id), parts[4]), filename)
        dest_folder_fs == PathJoin(PathJoin(TEMP_ROOT, session_id), dest_person)
        \* lines 353-355: mv is what shutil.move did
        Moved(dest_fs, mv) ==
            IF mv.err # "" THEN ServerError(mv.fs)
            ELSE Response(200, "", mv.fs, WebPath(session_id, dest_person, PathName(dest_fs)),
                          <<>>, {})
        MovedTo(g, dest_fs) == Moved(dest_fs, ShutilMove(g, src_fs, dest_fs))
        Made(mk) ==
            IF mk.err # "" THEN ServerError(mk.fs)
            ELSE IF ~Exists(mk.fs, src_fs)
            THEN HTTPException(404, "Source file not found", mk.fs)
            ELSE MovedTo(mk.fs, DestFile(mk.fs, dest_folder_fs, filename, hex))
    IN IF src = <<>> \/ dest_person = <<>>
       THEN HTTPException(400, "src and dest_person required", f)
       ELSE IF ~StartsWith(src, s_temp) THEN HTTPException(400, "Only /temp/ paths supported", f)
       ELSE IF Len(parts) < 5 THEN HTTPException(400, "Invalid src path", f)
       ELSE Made(Mkdir(f, dest_folder_fs, TRUE))

MoveImage(f, src, dest_person, hex) ==
    LET parts == Split(src, "/")
        session_id == parts[3]
        filename == parts[Len(parts)]
        src_fs == PathJoin(PathJoin(PathJoin(TEMP_ROOT, session_id), parts[4]), filename)
        dest_folder_fs == PathJoin(PathJoin(TEMP_ROOT, session_id), dest_person)
        \* lines 353-355: mv is what shutil.move did
        Moved(dest_fs, mv) ==
            IF mv.err # "" THEN ServerError(mv.fs)
            ELSE Response(200, "", mv.fs, WebPath(session_id, dest_person, PathName(dest_fs)),
                          <<>>, {})
        MovedTo(g, dest_fs) == Moved(dest_fs, ShutilMove(g, src_fs, dest_fs))
        \* lines 347-353: mk is what dest_folder_fs.mkdir did
        Made(mk) ==
            IF mk.err # "" THEN ServerError(mk.fs)
            ELSE MovedTo(mk.fs, DestFile(mk.fs, dest_folder_fs, filename, hex))
    IN IF src = <<>> \/ dest_person = <<>>
       THEN HTTPException(400, "src and dest_person required", f)
       ELSE IF ~StartsWith(src, s_temp) THEN HTTPException(400, "Only /temp/ paths supported", f)
       ELSE IF Len(parts) < 5 THEN HTTPException(400, "Invalid src path", f)
       ELSE IF ~Exists(f, src_fs) THEN HTTPException(404, "Source file not found", f)
       ELSE Made(Mkdir(f, dest_folder_fs, TRUE))

\* a delete_image that answers success when the file is already gone
DeleteImage_Idempotent(f, path) ==
    LET parts == Split(path, "/")
        file_fs == PathJoin(PathJoin(PathJoin(TEMP_ROOT, parts[3]), parts[4]), parts[Len(parts)])
        Unlinked(rm) ==
            IF rm.err # "" THEN ServerError(rm.fs) ELSE Response(200, "", rm.fs, path, <<>>, {})
    IN IF path = <<>> \/ ~StartsWith(path, s_temp) THEN HTTPException(400, "Invalid path", f)
       ELSE IF Len(parts) < 5 THEN HTTPException(400, "Invalid path", f)
       ELSE IF ~Exists(f, file_fs) THEN Response(200, "", f, path, <<>>, {})
       ELSE Unlinked(OsUnlink(f, file_fs))

DeleteImage(f, path) ==
    LET parts == Split(path, "/")
        session_id == parts[3]
        filename == parts[Len(parts)]
        file_fs == PathJoin(PathJoin(PathJoin(TEMP_ROOT, session_id), parts[4]), filename)
        \* lines 371-372: rm is what fs.unlink did
        Unlinked(rm) ==
            IF rm.err # "" THEN ServerError(rm.fs) ELSE Response(200, "", rm.fs, path, <<>>, {})
    IN IF path = <<>> \/ ~StartsWith(path, s_temp) THEN HTTPException(400, "Invalid path", f)
       ELSE IF Len(parts) < 5 THEN HTTPException(400, "Invalid path", f)
       ELSE IF ~Exists(f, file_fs) THEN HTTPException(404, "File not found", f)
       ELSE Unlinked(OsUnlink(f, file_fs))

\* rename_person without the test of line 387: the rename is tried on a taken name
RenamePerson_Unchecked(f, session_id, old_name, new_name) ==
    LET session_dir == PathJoin(TEMP_ROOT, session_id)
        old_fs == PathJoin(session_dir, old_name)
        new_fs == PathJoin(session_dir, new_name)
        \* lines 389-390: mv is what old_fs.rename did
        Renamed(mv) ==
            IF mv.err # "" THEN ServerError(mv.fs)
            ELSE Response(200, "", mv.fs, new_name, <<>>, {old_name, new_name})
    IN IF session_id = <<>> \/ old_name = <<>> \/ new_name = <<>>
       THEN HTTPException(400, "Missing parameters", f)
       ELSE IF ~Exists(f, old_fs) THEN HTTPException(404, "Old person not found", f)
       ELSE Renamed(OsRename(f, old_fs, new_fs))

RenamePerson(f, session_id, old_name, new_name) ==
    LET session_dir == PathJoin(TEMP_ROOT, session_id)
        old_fs == PathJoin(session_dir, old_name)
        new_fs == PathJoin(session_dir, new_name)
        \* lines 389-390: mv is what old_fs.rename did
        Renamed(mv) ==
            IF mv.err # "" THEN ServerError(mv.fs)
            ELSE Response(200, "", mv.fs, new_name, <<>>, {old_name, new_name})
    IN IF session_id = <<>> \/ old_name = <<>> \/ new_name = <<>>
       THEN HTTPException(400, "Missing parameters", f)
       ELSE IF ~Exists(f, old_fs) THEN HTTPException(404, "Old person not found", f)
       ELSE IF Exists(f, new_fs) THEN HTTPException(400, "Target name exists", f)
       ELSE Renamed(OsRename(f, old_fs, new_fs))

\* a promotion that makes the entry first and moves the session folder into it
ConfirmSession_IntoEntry(f, session_id) ==
    LET src == PathJoin(TEMP_ROOT, session_id)
        dest == PathJoin(PERSONS_DB,
                         s_database_ \o Str(NextIndex(
                             {d \in EntryNames(f, PERSONS_DB) :
                                 PathIsDir(f, Append(PERSONS_DB, d))},
                             s_database_, 1)))
        Moved(mv) ==
            IF mv.err # "" THEN ServerError(mv.fs)
            ELSE Response(200, "", mv.fs, s_persons_url \o PathName(dest), <<>>, {})
        Made(mk) == IF mk.err # "" THEN ServerError(mk.fs) ELSE Moved(ShutilMove(mk.fs, src, dest))
    IN IF session_id = <<>> THEN HTTPException(400, "session_id required", f)
       ELSE IF ~Exists(f, src) THEN HTTPException(404, "Session not found", f)
       ELSE Made(Mkdir(f, dest, TRUE))

ConfirmSession(f, session_id) ==
    LET src == PathJoin(TEMP_ROOT, session_id)
        \* lines 413-414: mv is what shutil.move did
        Moved(dest, mv) ==
            IF mv.err # "" THEN ServerError(mv.fs)
            ELSE Response(200, "", mv.fs, s_persons_url \o PathName(dest), <<>>, {})
        MovedTo(g, dest) == Moved(dest, ShutilMove(g, src, dest))
        \* lines 401-412: mk is what PERSONS_DB.mkdir did
        Made(mk) ==
            IF mk.err # "" THEN ServerError(mk.fs)
            ELSE MovedTo(mk.fs,
                         PathJoin(PERSONS_DB,
                                  s_database_ \o Str(NextIndex(
                                      {d \in EntryNames(mk.fs, PERSONS_DB) :
                                          PathIsDir(mk.fs, Append(PERSONS_DB, d))},
                                      s_database_, 1))))
    IN IF session_id = <<>> THEN HTTPException(400, "session_id required", f)
       ELSE IF ~Exists(f, src) THEN HTTPException(404, "Session not found", f)
       ELSE Made(Mkdir(f, PERSONS_DB, TRUE))

(***************************************************************************)
(* The requests explored.                                                  *)
(***************************************************************************)
\* uuid.uuid4().hex: the ids it can produce, and the one it never does here
Uuid(i) == <<"a">> \o Str(i)

Uuids == {Uuid(i) : i \in 1..MaxSessions}

NoSuchSession == Uuid(0)

\* uuid.uuid4().hex[:6]
Hex6 == { <<"a", "1", "b", "2", "c", "3">>, <<"d", "4", "e", "5", "f", "6">> }

person_(n) == s_person_ \o Str(n)

BigBox == <<0, 0, 50, 50>>

\* the video uploaded: one frame that shows two persons, tracked as 0 and 1
TwoPersons ==
    <<Event(FALSE, TRUE, TRUE, 64, 64, <<Det(0, 0, TRUE, BigBox), Det(1, 0, TRUE, BigBox)>>)>>

Videos == {TwoPersons}

\* one frame that shows one person, tracked as 0
OnePerson == <<Event(FALSE, TRUE, TRUE, 64, 64, <<Det(0, 0, TRUE, BigBox)>>)>>

\* the image URIs a listing of the tree shows
UrisOf(f) ==
    {WebPath(q[Len(q) - 2], q[Len(q) - 1], q[Len(q)]) :
        q \in {p \in DOMAIN f : Len(p) = Len(TEMP_ROOT) + 3 /\ IsPrefix(TEMP_ROOT, p)
                                 /\ f[p].kind # "dir"}}

\* f"f{frame_idx}_id{int(tid)}.jpg" of frame 0, track 0
FirstCrop == <<"f">> \o Str(0) \o <<"_", "i", "d">> \o Str(0) \o s_jpg

s_gone_jpg == <<"g", "o", "n", "e">> \o s_jpg

\* "../<session>/<group>": a group name that names a folder of another session
Across(sid, group) == DotDot \o <<"/">> \o sid \o <<"/">> \o group

\* URIs that name no image: never written, too short, with another prefix,
\* with a ".." segment in place of the session, none at all
BadUris ==
    {WebPath(sid, person_(0), s_gone_jpg) : sid \in issued}
    \cup { s_temp \o person_(0),
           s_persons_url \o s_database_ \o Str(1) \o <<"/">> \o person_(0) \o <<"/">> \o s_gone_jpg,
           s_temp \o DotDot \o <<"/">> \o JoinSlash(SubSeq(index_html, 2, 3)),
           <<>> }

SessionInputs == issued \cup {NoSuchSession, <<>>}

\* move_image: every image to a group that exists, to one that does not and
\* into every session; the URIs that name no image to a new group
MoveInputs ==
    (UrisOf(fs) \X ({person_(0), person_(2), <<>>} \cup {Across(sid, person_(0)) : sid \in issued}))
    \cup ((BadUris \cup deleted) \X {person_(2)})

DeleteInputs == UrisOf(fs) \cup BadUris \cup deleted

\* rename_person: a group that exists or not, to a name that is taken, to a free
\* one, into another session, to none; and "<group>/<file>", an image, to a
\* name next to the groups
RenameInputs ==
    ((issued \cup {NoSuchSession}) \X {person_(0), person_(9)}
        \X ({person_(1), person_(2), <<>>} \cup {Across(sid, person_(2)) : sid \in issued}))
    \cup (issued \X {person_(0) \o <<"/">> \o FirstCrop} \X {person_(2)})

\* add_person: no name (auto), a name that is taken, one with blanks and a
\* trailing field, and "../<session>"
NameInputs ==
    { <<>>, person_(0), <<" ">> \o Replace(person_(5), "_", " ") \o <<" ", "b", " ">> }
    \cup {DotDot \o <<"/">> \o sid : sid \in issued}

Request(op, a, b) == [op |-> op, a |-> a, b |-> b]

\* the worker threads of the server that run a handler at the same time
Threads == {1, 2}

\* A handler running in a thread: the endpoint, its position (the step it is
\* about to take), its arguments session_id and name, its locals (new_name,
\* the n of the scan, the path it is about to make or move to), and, once it
\* is done, the status and the string it returns and the paths it has made.
Call(op, pc, session_id, name, new_name, n, path, status, ret, made) ==
    [op |-> op, pc |-> pc, session_id |-> session_id, name |-> name,
     new_name |-> new_name, n |-> n, path |-> path, status |-> status, ret |-> ret,
     made |-> made]

NoCall == Call("idle", "idle", <<>>, <<>>, <<>>, 0, <<>>, 0, <<>>, {})

Reply(r) == [status |-> r.status, detail |-> r.detail, str |-> r.str,
             persons |-> r.persons, names |-> r.names]

NoRequest == Request("idle", <<>>, <<>>)

NoReply == Reply(HTTPException(0, "", <<>>))

\* One request served to completion (requests are served one at a time): r is
\* what the handler did; at most `changes` requests that change the tree are
\* explored.
ServeWithin(rq, r, changes) ==
    /\ req = NoRequest
    /\ r.fs = fs \/ nchanges < changes
    /\ fs' = r.fs
    /\ pre' = fs
    /\ req' = rq
    /\ resp' = Reply(r)
    /\ nchanges' = IF r.fs = fs THEN nchanges ELSE nchanges + 1
    /\ deleted' = IF rq.op = "delete_image" /\ r.status = 200
                  THEN deleted \cup {rq.a} ELSE deleted
    /\ promoted' = IF rq.op = "confirm_session" /\ r.status = 200
                   THEN promoted \cup {rq.a} ELSE promoted
    /\ UNCHANGED <<model, issued, failures, calls>>

Serve(rq, r) == ServeWithin(rq, r, MaxChanges)

Init ==
    /\ fs = InitialTree
    /\ model \in {"none", "track", "detect"}
    /\ issued = {}
    /\ req = NoRequest
    /\ resp = NoReply
    /\ pre = InitialTree
    /\ deleted = {}
    /\ promoted = {}
    /\ nchanges = 0
    /\ failures = {}
    /\ calls = [t \in Threads |-> NoCall]

\* the response reaches the client; the server keeps nothing of the request
respond ==
    /\ req # NoRequest
    /\ req' = NoRequest
    /\ resp' = NoReply
    /\ pre' = fs
    /\ UNCHANGED <<fs, model, issued, deleted, promoted, nchanges, failures, calls>>

\* POST /upload_video/ of one of `videos`; uuid4 draws an id of `ids` not drawn yet
Upload(ids, videos) ==
    LET Answered(session_id, video, r) ==
            /\ fs' = r.fs
            /\ pre' = fs
            /\ issued' = issued \cup {session_id}
            /\ req' = Request("upload_video", session_id, video)
            /\ resp' = Reply(r)
            /\ failures' = IF r.status = 200 THEN failures ELSE failures \cup {session_id}
            /\ UNCHANGED <<model, deleted, promoted, nchanges, calls>>
    IN /\ req = NoRequest
       /\ \E session_id \in ids \ issued, video \in videos :
             Answered(session_id, video, UploadVideo(fs, model, session_id, video))

upload_video == Upload(Uuids, Videos)

session_persons ==
    /\ req = NoRequest
    /\ \E session_id \in SessionInputs \ {<<>>} :
        Serve(Request("get_session_persons", session_id, <<>>),
              get_session_persons(fs, session_id))

sessions == req = NoRequest /\ Serve(Request("list_sessions", <<>>, <<>>), list_sessions(fs))

add_person ==
    /\ req = NoRequest
    /\ \E session_id \in SessionInputs, name \in NameInputs :
        Serve(Request("add_person", session_id, name), AddPerson(fs, session_id, name))

\* uuid4 is drawn only when the plain destination name is taken
move_image ==
    /\ req = NoRequest
    /\ \E in \in MoveInputs :
        \E hex \in Hex6 :
            /\ MoveImage(fs, in[1], in[2], <<>>) = MoveImage(fs, in[1], in[2], hex)
                  => hex = CHOOSE h \in Hex6 : TRUE
            /\ Serve(Request("move_image", in[1], in[2]), MoveImage(fs, in[1], in[2], hex))

delete_image ==
    /\ req = NoRequest
    /\ \E path \in DeleteInputs :
        Serve(Request("delete_image", path, <<>>), DeleteImage(fs, path))

rename_person ==
    /\ req = NoRequest
    /\ \E in \in RenameInputs :
        Serve(Request("rename_person", in[1], <<in[2], in[3]>>),
              RenamePerson(fs, in[1], in[2], in[3]))

confirm_session ==
    /\ req = NoRequest
    /\ \E session_id \in SessionInputs :
        Serve(Request("confirm_session", session_id, <<>>), ConfirmSession(fs, session_id))

Next ==
    \/ upload_video
    \/ session_persons
    \/ sessions
    \/ add_person
    \/ move_image
    \/ delete_image
    \/ rename_person
    \/ confirm_session
    \/ respond

Spec == Init /\ [][Next]_vars

(***************************************************************************)
(* Moves alone, one session and one change further: the uploads and the    *)
(* move_image requests that bring three images of one filename together.   *)
(***************************************************************************)
upload_third == Upload({Uuid(i) : i \in 1..MaxSessions + 1}, {OnePerson})

\* every image to the group person_1 of its own session and of every session
move_between ==
    /\ req = NoRequest
    /\ \E src \in UrisOf(fs),
          dest_person \in {person_(1)} \cup {Across(sid, person_(1)) : sid \in issued},
          hex \in Hex6 :
            /\ MoveImage(fs, src, dest_person, <<>>) = MoveImage(fs, src, dest_person, hex)
                  => hex = CHOOSE h \in Hex6 : TRUE
            /\ ServeWithin(Request("move_image", src, dest_person),
                           MoveImage(fs, src, dest_person, hex), MaxChanges + 1)

NextMoves ==
    \/ upload_third
    \/ move_between
    \/ respond

SpecMoves == Init /\ [][NextMoves]_vars

(***************************************************************************)
(* Ingest of every kind of video, by the tracker and by the detector.      *)
(***************************************************************************)
\* a decoded frame with its detections
Frame(dets) == Event(FALSE, TRUE, TRUE, 64, 64, dets)

\* a person in full view, tracked as t
Person(t) == Det(t, 0, TRUE, BigBox)

\* one person, tracked as 3, in each of three frames
Walk == <<Frame(<<Person(3)>>), Frame(<<Person(3)>>), Frame(<<Person(3)>>)>>

\* two frames, one person in each
Pair == <<Frame(<<Person(0)>>), Frame(<<Person(1)>>)>>

\* two persons in each of two frames, detected in a different order
Crowd == <<Frame(<<Person(0), Person(1)>>), Frame(<<Person(1), Person(0)>>)>>

\* A frame with a box that does not convert, a tiny one, one of another
\* class, one outside the image and a good one; then a result without image,
\* one without boxes, and a good frame.
Flawed ==
    <<Frame(<<Det(0, 0, FALSE, BigBox), Det(1, 0, TRUE, <<0, 0, 10, 10>>),
              Det(2, 1, TRUE, BigBox), Det(4, 0, TRUE, <<70, 70, 90, 90>>), Person(5)>>),
      Event(FALSE, FALSE, TRUE, 64, 64, <<Person(5)>>),
      Event(FALSE, TRUE, FALSE, 64, 64, <<Person(5)>>),
      Frame(<<Person(5)>>)>>

\* the detector raises on the second of three frames
Broken == <<Frame(<<Person(0)>>), Event(TRUE, TRUE, TRUE, 64, 64, <<Person(0)>>),
            Frame(<<Person(0)>>)>>

\* a video without frames
Blank == <<>>

IngestVideos == {Walk, Pair, Crowd, Flawed, Broken, Blank, TwoPersons}

ingest == Upload(Uuids, IngestVideos)

NextIngest ==
    \/ ingest
    \/ respond

SpecIngest == Init /\ [][NextIngest]_vars

\* ingest and the create-group requests that follow it
NextRollback ==
    \/ ingest
    \/ add_person
    \/ respond

SpecRollback == Init /\ [][NextRollback]_vars

(***************************************************************************)
(* Promotion, one request at a time: uploads, promotions, and the renames  *)
(* that reach the permanent store through "..".                            *)
(***************************************************************************)
\* a name that leads from a session folder to `parts` below the root
OutOfTemp(parts) == JoinSlash([i \in 1..Len(TEMP_ROOT) + 1 |-> DotDot] \o parts)

\* "database_5_b"
s_database_5_b == s_database_ \o Str(5) \o <<"_", "b">>

\* rename_person of a group into the permanent store, under a name that
\* starts like the name of an entry; and of an entry into a session
rename_across ==
    /\ req = NoRequest
    /\ \E in \in (issued \X {person_(0)} \X {OutOfTemp(Append(PERSONS_DB, s_database_5_b))})
                 \cup (issued \X {OutOfTemp(Append(PERSONS_DB, s_database_ \o Str(1)))}
                              \X {person_(9)}) :
        ServeWithin(Request("rename_person", in[1], <<in[2], in[3]>>),
                    RenamePerson(fs, in[1], in[2], in[3]), MaxChanges + 1)

promote ==
    /\ req = NoRequest
    /\ \E session_id \in issued :
        ServeWithin(Request("confirm_session", session_id, <<>>),
                    ConfirmSession(fs, session_id), MaxChanges + 1)

NextPromote ==
    \/ upload_third
    \/ rename_across
    \/ promote
    \/ respond

SpecPromote == Init /\ [][NextPromote]_vars

(***************************************************************************)
(* Handlers running at the same time.  confirm_session, add_person and the *)
(* other endpoints declared with def run in worker threads, and nothing in *)
(* them takes a lock: between two accesses to the directory tree by one    *)
(* call, the other call may take any of its steps.                         *)
(***************************************************************************)
\* the call of thread t takes the step from position pc
At(t, op, pc) == calls[t].op = op /\ calls[t].pc = pc

\* the call of thread t moves on to position pc with local `field` set to v
Goto(t, pc, field, v) ==
    calls' = [calls EXCEPT ![t] = [@ EXCEPT !.pc = pc, ![field] = v]]

\* the call of thread t ends: it raises or returns, having made `made`
Done(t, status, ret, made) ==
    calls' = [calls EXCEPT ![t] = [@ EXCEPT !.pc = "done", !.status = status,
                                              !.ret = ret, !.made = made]]

\* a step of a thread changes the tree and the calls at most
StepFrame == UNCHANGED <<model, issued, req, resp, pre, deleted, promoted, nchanges, failures>>

\* shutil.move, the part before os.rename: the destination, which lies inside
\* dst when dst is a directory, and the refusal when that name is taken
ShutilMoveTarget(f, src, dst) ==
    LET intoDir == PathIsDir(f, dst) /\ Resolve(f, src) # Resolve(f, dst)
        real_dst == IF intoDir /\ src # <<>> THEN Append(dst, src[Len(src)]) ELSE dst
    IN [err |-> IF intoDir /\ Exists(f, real_dst) THEN "Error" ELSE "", path |-> real_dst]

\* shutil.move, os.rename and what follows: copy-then-delete of a folder when
\* the rename is refused
ShutilMoveRename(f, src, real_dst) ==
    LET Copied(mk) ==
            IF mk.err # "" THEN mk
            ELSE Ok(MoveTree(mk.fs, Resolve(mk.fs, src), Resolve(mk.fs, real_dst)))
        Renamed(r) ==
            IF r.err = "" THEN r
            ELSE IF PathIsDir(f, src)
            THEN IF IsPrefix(Resolve(f, src), Resolve(f, real_dst)) THEN Fail("Error", f)
                 ELSE Copied(Mkdir(f, real_dst, FALSE))
            ELSE r
    IN Renamed(OsRename(f, src, real_dst))

\* a destination taken from a scan of the store made at the time of the move
RaceDest_Rescanned(f, n) ==
    PathJoin(PERSONS_DB,
             s_database_ \o Str(NextIndex({d \in EntryNames(f, PERSONS_DB) :
                                              PathIsDir(f, Append(PERSONS_DB, d))},
                                          s_database_, 1)))

\* line 412: dest, from the n the scan of this call found; the tree as it is
\* by now plays no part
RaceDest(f, n) == PathJoin(PERSONS_DB, s_database_ \o Str(n))

\* a thread takes up POST /confirm_session/ for a session
confirm_call ==
    \E t \in Threads, session_id \in issued :
        /\ calls[t] = NoCall
        /\ calls' = [calls EXCEPT ![t] = Call("confirm_session", "exists", session_id,
                                              <<>>, <<>>, 0, <<>>, 0, <<>>, {})]
        /\ UNCHANGED fs
        /\ StepFrame

\* lines 398-400: src.exists()
confirm_exists ==
    \E t \in Threads :
        /\ At(t, "confirm_session", "exists")
        /\ IF Exists(fs, PathJoin(TEMP_ROOT, calls[t].session_id))
           THEN Goto(t, "scan", "n", 0)
           ELSE Done(t, 404, <<>>, {})
        /\ UNCHANGED fs
        /\ StepFrame

\* lines 402-411: PERSONS_DB.mkdir and the scan for n
confirm_scan ==
    \E t \in Threads :
        /\ At(t, "confirm_session", "scan")
        /\ fs' = Mkdir(fs, PERSONS_DB, TRUE).fs
        /\ Goto(t, "isdir", "n",
                NextIndex({d \in EntryNames(fs, PERSONS_DB) :
                              PathIsDir(fs, Append(PERSONS_DB, d))},
                          s_database_, 1))
        /\ StepFrame

\* lines 412-413: dest, and shutil.move up to its os.rename
confirm_isdir ==
    \E t \in Threads :
        /\ At(t, "confirm_session", "isdir")
        /\ IF ShutilMoveTarget(fs, PathJoin(TEMP_ROOT, calls[t].session_id),
                               RaceDest(fs, calls[t].n)).err # ""
           THEN Done(t, 500, <<>>, {})
           ELSE Goto(t, "rename", "path",
                     ShutilMoveTarget(fs, PathJoin(TEMP_ROOT, calls[t].session_id),
                                      RaceDest(fs, calls[t].n)).path)
        /\ UNCHANGED fs
        /\ StepFrame

\* lines 413-414: os.rename of shutil.move, and the return.  The response
\* names dest, whatever the folder the session has landed in.
confirm_rename ==
    \E t \in Threads :
        LET Renamed(mv) ==
                /\ fs' = mv.fs
                /\ IF mv.err # "" THEN Done(t, 500, <<>>, {})
                   ELSE Done(t, 200,
                             s_persons_url \o s_database_ \o Str(calls[t].n),
                             {calls[t].path})
        IN /\ At(t, "confirm_session", "rename")
           /\ Renamed(ShutilMoveRename(fs, PathJoin(TEMP_ROOT, calls[t].session_id),
                                       calls[t].path))
           /\ StepFrame

NextRace ==
    \/ upload_third
    \/ respond
    \/ confirm_call
    \/ confirm_exists
    \/ confirm_scan
    \/ confirm_isdir
    \/ confirm_rename

SpecRace == Init /\ [][NextRace]_vars

\* a create-group call that takes the folder for made when it is there
MakeGroup_ExistOk(f, new_folder) == Mkdir(f, new_folder, TRUE)

\* line 327: new_folder.mkdir(parents=True, exist_ok=False)
MakeGroup(f, new_folder) == Mkdir(f, new_folder, FALSE)

\* add_person at the same time: no name, a name, and the same name with blanks
CreateNames == { <<>>, person_(1), <<" ">> \o Replace(person_(1), "_", " ") \o <<" ">> }

\* a thread takes up POST /add_person/ for a session
add_call ==
    \E t \in Threads, session_id \in issued, name \in CreateNames :
        /\ calls[t] = NoCall
        /\ calls' = [calls EXCEPT ![t] = Call("add_person", "exists", session_id,
                                              name, <<>>, 0, <<>>, 0, <<>>, {})]
        /\ UNCHANGED fs
        /\ StepFrame

\* lines 307-309: session_dir.exists()
add_exists ==
    \E t \in Threads :
        /\ At(t, "add_person", "exists")
        /\ IF Exists(fs, PathJoin(TEMP_ROOT, calls[t].session_id))
           THEN Goto(t, "choose", "new_name", <<>>)
           ELSE Done(t, 404, <<>>, {})
        /\ UNCHANGED fs
        /\ StepFrame

\* lines 311-324: new_name, sanitized or from the scan of the groups, and
\* new_folder
add_choose ==
    \E t \in Threads :
        LET Chosen(new_name) ==
                calls' = [calls EXCEPT ![t] =
                             [@ EXCEPT !.pc = "check", !.new_name = new_name,
                                       !.path = PathJoin(PathJoin(TEMP_ROOT, calls[t].session_id),
                                                         new_name)]]
        IN /\ At(t, "add_person", "choose")
           /\ IF calls[t].name = <<>>
                 /\ ~PathIsDir(fs, PathJoin(TEMP_ROOT, calls[t].session_id))
              THEN Done(t, 500, <<>>, {})
              ELSE Chosen(NewPersonName(fs, PathJoin(TEMP_ROOT, calls[t].session_id),
                                        calls[t].name))
           /\ UNCHANGED fs
           /\ StepFrame

\* lines 325-326: new_folder.exists()
add_check ==
    \E t \in Threads :
        /\ At(t, "add_person", "check")
        /\ IF Exists(fs, calls[t].path)
           THEN Done(t, 400, <<>>, {})
           ELSE Goto(t, "mkdir", "n", 0)
        /\ UNCHANGED fs
        /\ StepFrame

\* lines 327-328: new_folder.mkdir, and the return
add_mkdir ==
    \E t \in Threads :
        LET Made(mk) ==
                /\ fs' = mk.fs
                /\ IF mk.err # "" THEN Done(t, 500, <<>>, DOMAIN mk.fs \ DOMAIN fs)
                   ELSE Done(t, 200, calls[t].new_name, DOMAIN mk.fs \ DOMAIN fs)
        IN /\ At(t, "add_person", "mkdir")
           /\ Made(MakeGroup(fs, calls[t].path))
           /\ StepFrame

NextCreate ==
    \/ upload_third
    \/ respond
    \/ add_call
    \/ add_exists
    \/ add_choose
    \/ add_check
    \/ add_mkdir

SpecCreate == Init /\ [][NextCreate]_vars

(***************************************************************************)
(* Vocabulary of the properties.  They are stated on the state in which a  *)
(* response is on its way: req is the request, pre the tree before it, fs  *)
(* the tree after it.                                                      *)
(***************************************************************************)
\* a name that is one path segment: not empty, not "." or "..", without "/"
PlainName(s) == s # <<>> /\ s # Dot /\ s # DotDot /\ \A i \in 1..Len(s) : s[i] # "/"

\* /temp/<session>/<group>/<file> with plain segments
PlainUri(u) ==
    /\ StartsWith(u, s_temp)
    /\ Len(Split(u, "/")) = 5
    /\ \A i \in 3..5 : PlainName(Split(u, "/")[i])

UriSession(u) == Split(u, "/")[3]

UriGroup(u) == Split(u, "/")[4]

UriFile(u) == Split(u, "/")[5]

SessionDir(sid) == Append(TEMP_ROOT, sid)

GroupDir(sid, group) == Append(SessionDir(sid), group)

\* the file an image URI stands for
FileOfUri(u) == Append(GroupDir(UriSession(u), UriGroup(u)), UriFile(u))

\* the paths whose node appeared, went away or changed in the last request
ChangedPaths ==
    {p \in DOMAIN fs \cup DOMAIN pre :
        p \notin DOMAIN fs \/ p \notin DOMAIN pre \/ fs[p] # pre[p]}

\* the images of a group: its regular files
ImagesIn(f, sid, group) == {p \in Children(f, GroupDir(sid, group)) : IsFile(f, p)}

\* the images of a session: the regular files of its group folders
ImagesOf(f, sid) ==
    {p \in DOMAIN f : Len(p) = Len(TEMP_ROOT) + 3 /\ IsPrefix(SessionDir(sid), p) /\ IsFile(f, p)}

Corrections == {"add_person", "move_image", "delete_image", "rename_person"}

\* the session a correction request addresses, when it names one plainly
AddressedSessions ==
    LET named == IF req.op \in {"add_person", "rename_person"} THEN {req.a}
                 ELSE IF Len(Split(req.a, "/")) >= 3 THEN {Split(req.a, "/")[3]}
                 ELSE {}
    IN {sid \in named : PlainName(sid)}

(***************************************************************************)
(* C1.  A create-group, move-image, delete-image or rename-group call, for *)
(* any session id, group name or image URI (also with ".." or "/" in it),  *)
(* changes nothing, or changes only paths inside the directory of the      *)
(* session it addresses, under the temp root.                              *)
(***************************************************************************)
C1_ScopedToSession ==
    req.op \in Corrections =>
        \A p \in ChangedPaths :
            \E sid \in AddressedSessions :
                IsPrefix(SessionDir(sid), p) /\ p # SessionDir(sid)

(***************************************************************************)
(* C2.  An image is in one group at a time.  After a successful move_image *)
(* of an existing image from group G to another group H of its session,    *)
(* the image is no longer in G, is in H exactly once, and the session      *)
(* holds as many images as before; in every reachable state, so after any  *)
(* sequence of moves.                                                      *)
(***************************************************************************)
C2_MoveKeepsOwnership ==
    (/\ req.op = "move_image"
     /\ resp.status = 200
     /\ PlainUri(req.a)
     /\ PlainName(req.b)
     /\ req.b # UriGroup(req.a)
     /\ FileOfUri(req.a) \in DOMAIN pre
     /\ IsFile(pre, FileOfUri(req.a)))
    => /\ FileOfUri(req.a) \notin DOMAIN fs
       /\ Cardinality({q \in ImagesIn(fs, UriSession(req.a), req.b) :
                          fs[q] = pre[FileOfUri(req.a)]}) = 1
       /\ Cardinality(ImagesOf(fs, UriSession(req.a)))
              = Cardinality(ImagesOf(pre, UriSession(req.a)))

(***************************************************************************)
(* C3.  move_image never overwrites.  When the destination group already   *)
(* holds a file with the source's filename, every other file the group     *)
(* held before the call is still there with its own content, and the moved *)
(* image is stored in the group under a name none of them had, whatever    *)
(* the six hex digits drawn.                                               *)
(***************************************************************************)
MoveDestDir == Resolve(fs, PathJoin(SessionDir(UriSession(req.a)), req.b))

C3_MoveNeverOverwrites ==
    (/\ req.op = "move_image"
     /\ resp.status = 200
     /\ PlainUri(req.a)
     /\ Append(MoveDestDir, UriFile(req.a)) \in DOMAIN pre)
    => /\ \A p \in Children(pre, MoveDestDir) \ {FileOfUri(req.a)} :
              p \in DOMAIN fs /\ fs[p] = pre[p]
       /\ \E q \in Children(fs, MoveDestDir) \ (Children(pre, MoveDestDir) \ {FileOfUri(req.a)}) :
              fs[q] = pre[FileOfUri(req.a)]

(***************************************************************************)
(* C4.  A move_image whose source file does not exist fails with 404 and   *)
(* leaves the tree as it was: the destination group is not created, also   *)
(* when no group of that name existed.                                     *)
(***************************************************************************)
C4_MissingSourceNotFound ==
    (/\ req.op = "move_image"
     /\ PlainUri(req.a)
     /\ req.b # <<>>
     /\ FileOfUri(req.a) \notin DOMAIN pre)
    => resp.status = 404 /\ fs = pre

\* a move of a missing image of an existing session to a group that is not there
C4_Witness ==
    /\ req.op = "move_image"
    /\ PlainUri(req.a)
    /\ SessionDir(UriSession(req.a)) \in DOMAIN pre
    /\ FileOfUri(req.a) \notin DOMAIN pre
    /\ PlainName(req.b)
    /\ GroupDir(UriSession(req.a), req.b) \notin DOMAIN pre
    /\ resp.status = 404
    /\ GroupDir(UriSession(req.a), req.b) \notin DOMAIN fs

(***************************************************************************)
(* C5.  A delete_image of an image that does not exist fails with 404 and  *)
(* leaves the tree as it was; a successful delete removes that one file    *)
(* and nothing else, so a second delete of the same URI fails with 404.    *)
(***************************************************************************)
C5_DeleteNotIdempotent ==
    (req.op = "delete_image" /\ PlainUri(req.a))
    => /\ FileOfUri(req.a) \notin DOMAIN pre => resp.status = 404 /\ fs = pre
       /\ resp.status = 200 =>
              /\ ChangedPaths = {FileOfUri(req.a)}
              /\ FileOfUri(req.a) \notin DOMAIN fs
              /\ req.a \in deleted

\* the second delete of a URI whose first delete succeeded
C5_Witness ==
    /\ req.op = "delete_image"
    /\ PlainUri(req.a)
    /\ req.a \in deleted
    /\ FileOfUri(req.a) \notin DOMAIN pre
    /\ resp.status = 404


(***************************************************************************)
(* C6.  rename_person fails with 404 when the source group is absent, and  *)
(* when the destination name is taken it fails with an error that is not   *)
(* the one of a validation failure; the tree, so both groups with their    *)
(* names and images, is then as before.                                    *)
(***************************************************************************)
RenameOld == PathJoin(PathJoin(TEMP_ROOT, req.a), req.b[1])

RenameNew == PathJoin(PathJoin(TEMP_ROOT, req.a), req.b[2])

RenameWellFormed ==
    req.op = "rename_person" /\ req.a # <<>> /\ req.b[1] # <<>> /\ req.b[2] # <<>>

\* what a rename_person with missing parameters is answered
RenameValidationError == Reply(RenamePerson(pre, <<>>, <<>>, <<>>))

AddressedTo(s) ==
    \/ req.op \in {"get_session_persons", "add_person"} /\ req.a = s
    \/ req.op = "confirm_session" /\ req.a = s /\ SessionDir(s) \notin DOMAIN pre
    \/ RenameWellFormed /\ req.a = s
    \/ req.op = "delete_image" /\ PlainUri(req.a) /\ UriSession(req.a) = s
    \/ req.op = "move_image" /\ PlainUri(req.a) /\ UriSession(req.a) = s /\ req.b # <<>>

C7_PromotedStaysGone ==
    \A s \in promoted :
        /\ SessionDir(s) \notin DOMAIN fs
        /\ AddressedTo(s) => resp.status = 404 /\ fs = pre

(***************************************************************************)
(* C8.  The listing of a session is what its directory holds now: 404 when *)
(* the directory does not exist, else the group folders in increasing      *)
(* order of name, each with the URIs of its files in increasing order of   *)
(* name.  The snapshot plays no part: no correction rewrites it.           *)
(***************************************************************************)
\* a sequence of strings in strictly increasing order
Increasing(s) == \A i \in 1..Len(s) - 1 : StrLess(s[i], s[i + 1])

ListedGroups == {resp.persons[i][1] : i \in 1..Len(resp.persons)}

C8_ListingIsDirectory ==
    /\ (req.op = "get_session_persons" /\ PlainName(req.a)) =>
          IF SessionDir(req.a) \notin DOMAIN fs THEN resp.status = 404
          ELSE /\ resp.status = 200
               /\ ListedGroups = {p[Len(p)] : p \in {q \in Children(fs, SessionDir(req.a)) :
                                                        IsDir(fs, q)}}
               /\ Increasing([i \in 1..Len(resp.persons) |-> resp.persons[i][1]])
               /\ \A i \in 1..Len(resp.persons) :
                     LET group == resp.persons[i][1]
                         images == resp.persons[i][2]
                     IN /\ {images[j] : j \in 1..Len(images)}
                              = {WebPath(req.a, group, p[Len(p)]) :
                                    p \in ImagesIn(fs, req.a, group)}
                        /\ Increasing(images)
    /\ req.op \in Corrections =>
          \A p \in DOMAIN pre : pre[p].kind = "json" => p \in DOMAIN fs /\ fs[p] = pre[p]

\* the snapshot of a session, as written at ingest
Snapshot(sid) == fs[Append(SessionDir(sid), s_annotation_json)].map

\* a listing after a move: an image is listed under a group where the
\* snapshot does not have it
C8_Witness ==
    /\ req.op = "get_session_persons"
    /\ resp.status = 200
    /\ Append(SessionDir(req.a), s_annotation_json) \in DOMAIN fs
    /\ \E i \in 1..Len(resp.persons) :
          \E j \in 1..Len(resp.persons[i][2]) :
              \A k \in 1..Len(Snapshot(req.a)) :
                  Snapshot(req.a)[k][1] = resp.persons[i][1] =>
                      \A l \in 1..Len(Snapshot(req.a)[k][2]) :
                          Snapshot(req.a)[k][2][l] # resp.persons[i][2][j]

(***************************************************************************)
(* C9.  add_person without a name, on an existing session, creates the     *)
(* group person_<k>, k being 1 + the largest n over the groups named       *)
(* person_<n>, 0 when there is none; it never answers that the folder      *)
(* exists and never takes the name of a group that is there.               *)
(***************************************************************************)
AutoNamed ==
    /\ req.op = "add_person"
    /\ req.b = <<>>
    /\ PlainName(req.a)
    /\ IsDir(pre, SessionDir(req.a))

GroupNames(f, sid) == {p[Len(p)] : p \in {q \in Children(f, SessionDir(sid)) : IsDir(f, q)}}

\* the n of the groups named person_<n>: the prefix and decimal digits
NamedIndices(f, sid) ==
    {DigitsVal(Split(g, "_")[2]) :
        g \in {x \in GroupNames(f, sid) :
                  /\ StartsWith(x, s_person_)
                  /\ Len(Split(x, "_")) = 2
                  /\ Split(x, "_")[2] # <<>>
                  /\ \A i \in 1..Len(Split(x, "_")[2]) : IsDigit(Split(x, "_")[2][i])}}

\* the n of the groups whose name starts with person_ and has an integer as
\* its second "_"-separated field, whatever follows it
FieldIndices(f, sid) ==
    {IntOf(Split(g, "_")[2]) :
        g \in {x \in GroupNames(f, sid) : StartsWith(x, s_person_) /\ IsInt(Split(x, "_")[2])}}

\* 1 + the largest of ns, 0 when there is none: the least k >= 0 above all
IndexAfter(ns) == CHOOSE k \in {0} \cup {n + 1 : n \in ns} : k >= 0 /\ \A n \in ns : n < k

\* the group person_<k> is created, and nothing else changes
Created(k) ==
    /\ resp.status = 200
    /\ resp.str = person_(k)
    /\ resp.str \notin GroupNames(pre, req.a)
    /\ ChangedPaths = {GroupDir(req.a, person_(k))}
    /\ IsDir(fs, GroupDir(req.a, person_(k)))

C9_WitnessFile ==
    /\ AutoNamed
    /\ IsFile(pre, GroupDir(req.a, person_(IndexAfter(FieldIndices(pre, req.a)))))
    /\ resp.status = 400

(***************************************************************************)
(* C10.  With no detector at all the upload succeeds: it answers a fresh   *)
(* session id and an empty group map, the session folder exists, the       *)
(* session is in the list of sessions, and its listing is the empty map,   *)
(* not 404.                                                                *)
(***************************************************************************)
C10_NoDetectorEmptySession ==
    (req.op = "upload_video" /\ model = "none") =>
        /\ resp.status = 200
        /\ resp.str = req.a
        /\ resp.persons = <<>>
        /\ SessionDir(req.a) \notin DOMAIN pre
        /\ IsDir(fs, SessionDir(req.a))
        /\ req.a \in list_sessions(fs).names
        /\ list_session_persons(fs, req.a).status = 200
        /\ list_session_persons(fs, req.a).persons = <<>>

\* the second upload without a detector: a session next to another one
C10_Witness ==
    /\ req.op = "upload_video"
    /\ model = "none"
    /\ resp.status = 200
    /\ Cardinality(list_sessions(fs).names) = 2
    /\ IsDir(fs, SessionDir(req.a))

(***************************************************************************)
(* Ingest: rollback, URI-to-file consistency, grouping, the snapshot.      *)
(***************************************************************************)
\* what lies in or below the folder of session s
SessionPaths(f, s) == {p \in DOMAIN f : IsPrefix(SessionDir(s), p)}

\* C11: once an ingest has failed, its session is gone for good: in every
\* state after the failure nothing lies in the session's folder, the session
\* id is not in the list of sessions and the listing of the session is
\* answered with 404.
C11_FailedIngestStaysGone ==
    \A s \in failures :
        /\ SessionPaths(fs, s) = {}
        /\ s \notin list_sessions(fs).names
        /\ get_session_persons(fs, s).status = 404

\* the same at the moment the failure is reported
C11_RolledBackAtReport ==
    (req.op = "upload_video" /\ resp.status # 200) =>
        /\ resp.status = 500
        /\ SessionPaths(fs, req.a) = {}
        /\ req.a \notin list_sessions(fs).names
        /\ get_session_persons(fs, req.a).status = 404

\* an upload has just been answered with success
Ingested == req.op = "upload_video" /\ resp.status = 200

\* C12: after every successful ingest, by the tracker or by the detector,
\* every image URI of the returned map names a file that exists in the
\* session's folder under the group the URI names, which is the key it is
\* listed under, and every key of the map has at least one image.
C12_ReturnedUrisExist ==
    Ingested =>
        \A i \in 1..Len(resp.persons) :
            /\ Len(resp.persons[i][2]) >= 1
            /\ \A j \in 1..Len(resp.persons[i][2]) :
                /\ PlainUri(resp.persons[i][2][j])
                /\ UriSession(resp.persons[i][2][j]) = req.a
                /\ UriGroup(resp.persons[i][2][j]) = resp.persons[i][1]
                /\ IsFile(fs, FileOfUri(resp.persons[i][2][j]))

\* the detector, without tracking, has found four persons in two frames
C12_Witness ==
    /\ Ingested
    /\ model = "detect"
    /\ Len(resp.persons) = 4
    /\ \A i \in 1..4 : IsFile(fs, FileOfUri(resp.persons[i][2][1]))

\* the tracker has found one person in three frames
C12_WitnessTracked ==
    /\ Ingested
    /\ model = "track"
    /\ \E i \in 1..Len(resp.persons) : Len(resp.persons[i][2]) = 3

\* the video of the upload just answered, the frame index of its n-th event
Video == req.b

\* The boxes of the video that pass the filters, as <<n, i>>: the i-th box of
\* the n-th event, which has an image and boxes; the box converts, and after
\* clamping it is neither empty nor tiny.
AcceptedBoxes(video) ==
    {b \in UNION {{<<n, i>> : i \in 1..Len(video[n].dets)} : n \in 1..Len(video)} :
        /\ video[b[1]].img /\ video[b[1]].boxes
        /\ video[b[1]].dets[b[2]].ok
        /\ Accepted(video[b[1]].dets[b[2]].box, video[b[1]].w, video[b[1]].h)}

TrackOf(video, b) == video[b[1]].dets[b[2]].tid

\* the group folders of a session
GroupsOf(f, sid) == {p \in Children(f, SessionDir(sid)) : IsDir(f, p)}

\* f"f{frame_idx}_id{int(tid)}.jpg"
TrackedName(frame_idx, tid) ==
    <<"f">> \o Str(frame_idx) \o <<"_", "i", "d">> \o Str(tid) \o s_jpg

\* C13: in tracking mode the group of a detection is determined by its track
\* id alone.  After a successful ingest every accepted detection with id t,
\* of whatever frame, is stored in the group person_<t> and listed under it;
\* the groups are those of the ids accepted, one per id, so two accepted
\* detections share a group exactly when they share the id; and a group holds
\* as many images, under distinct filenames, as there are accepted detections
\* of its id: three for an id accepted once in each of three frames.
C13_GroupedByTrackId ==
    (Ingested /\ model = "track") =>
        /\ \A b \in AcceptedBoxes(Video) :
            /\ GroupDir(req.a, person_(TrackOf(Video, b))) \in GroupsOf(fs, req.a)
            /\ Append(GroupDir(req.a, person_(TrackOf(Video, b))),
                      TrackedName(b[1] - 1, TrackOf(Video, b)))
                 \in ImagesIn(fs, req.a, person_(TrackOf(Video, b)))
            /\ fs[Append(GroupDir(req.a, person_(TrackOf(Video, b))),
                         TrackedName(b[1] - 1, TrackOf(Video, b)))]
                 = Crop(req.a, b[1] - 1, b[2])
            /\ \E i \in 1..Len(resp.persons) :
                /\ resp.persons[i][1] = person_(TrackOf(Video, b))
                /\ \E j \in 1..Len(resp.persons[i][2]) :
                     resp.persons[i][2][j]
                       = WebPath(req.a, person_(TrackOf(Video, b)),
                                 TrackedName(b[1] - 1, TrackOf(Video, b)))
        /\ GroupsOf(fs, req.a)
             = {GroupDir(req.a, person_(TrackOf(Video, b))) : b \in AcceptedBoxes(Video)}
        /\ Cardinality(GroupsOf(fs, req.a))
             = Cardinality({TrackOf(Video, b) : b \in AcceptedBoxes(Video)})
        /\ \A b \in AcceptedBoxes(Video) :
             Cardinality(ImagesIn(fs, req.a, person_(TrackOf(Video, b))))
               = Cardinality({c \in AcceptedBoxes(Video) :
                                 TrackOf(Video, c) = TrackOf(Video, b)})

\* one person, tracked as 3, accepted once in each of three frames: the one
\* group person_3 with three images
C13_Witness ==
    /\ Ingested /\ model = "track"
    /\ Video = Walk
    /\ GroupsOf(fs, req.a) = {GroupDir(req.a, person_(3))}
    /\ Cardinality(ImagesIn(fs, req.a, person_(3))) = 3

\* two persons in two frames, detected in a different order: two groups of
\* two images
C13_WitnessCrowd ==
    /\ Ingested /\ model = "track"
    /\ Video = Crowd
    /\ Cardinality(GroupsOf(fs, req.a)) = 2
    /\ \A t \in {0, 1} : Cardinality(ImagesIn(fs, req.a, person_(t))) = 2

\* The boxes of the video the fallback branch accepts, as <<n, i>>: the n-th
\* frame has boxes; the box converts, is of class 0, and after clamping it is
\* neither empty nor tiny.
DetectedBoxes(video) ==
    {b \in UNION {{<<n, i>> : i \in 1..Len(video[n].dets)} : n \in 1..Len(video)} :
        /\ video[b[1]].boxes
        /\ video[b[1]].dets[b[2]].ok
        /\ video[b[1]].dets[b[2]].cls = 0
        /\ Accepted(video[b[1]].dets[b[2]].box, video[b[1]].w, video[b[1]].h)}

\* how many boxes of bs are accepted before b: frame by frame, box by box
Rank(bs, b) == Cardinality({c \in bs : c[1] < b[1] \/ (c[1] = b[1] /\ c[2] < b[2])})

\* f"f{frame_idx}_p{next_pid}.jpg"
DetectedName(frame_idx, pid) ==
    <<"f">> \o Str(frame_idx) \o <<"_", "p">> \o Str(pid) \o s_jpg

\* C14: in non-tracking mode every accepted detection gets a group of its
\* own.  After a successful ingest there are as many groups as accepted
\* detections, named person_0 .. person_<k-1> in the order of acceptance (the
\* keys of the returned map come in that order), each group holds exactly one
\* image, the crop of its detection, and no two detections share a group.
C14_GroupPerDetection ==
    (Ingested /\ model = "detect") =>
        /\ Cardinality(GroupsOf(fs, req.a)) = Cardinality(DetectedBoxes(Video))
        /\ GroupsOf(fs, req.a)
             = {GroupDir(req.a, person_(k)) : k \in 0..Cardinality(DetectedBoxes(Video)) - 1}
        /\ Len(resp.persons) = Cardinality(DetectedBoxes(Video))
        /\ \A k \in 1..Len(resp.persons) : resp.persons[k][1] = person_(k - 1)
        /\ \A b \in DetectedBoxes(Video) :
            /\ ImagesIn(fs, req.a, person_(Rank(DetectedBoxes(Video), b)))
                 = {Append(GroupDir(req.a, person_(Rank(DetectedBoxes(Video), b))),
                           DetectedName(b[1] - 1, Rank(DetectedBoxes(Video), b)))}
            /\ fs[Append(GroupDir(req.a, person_(Rank(DetectedBoxes(Video), b))),
                         DetectedName(b[1] - 1, Rank(DetectedBoxes(Video), b)))]
                 = Crop(req.a, b[1] - 1, b[2])

\* two frames with one accepted detection each: two groups, one image each
C14_Witness ==
    /\ Ingested /\ model = "detect"
    /\ Video = Pair
    /\ GroupsOf(fs, req.a) = {GroupDir(req.a, person_(0)), GroupDir(req.a, person_(1))}
    /\ \A k \in {0, 1} : Cardinality(ImagesIn(fs, req.a, person_(k))) = 1

\* annotation.json of a session
SnapshotFile(sid) == Append(SessionDir(sid), s_annotation_json)

\* C16: every ingest that returns success has written the snapshot: after it
\* annotation.json is a file of the session folder, it was not there before,
\* and its content is the map returned to the caller.  This includes the
\* success returned when there is no detector and the map is empty.
C16_SnapshotIsReturnedMap ==
    Ingested =>
        /\ SnapshotFile(req.a) \notin DOMAIN pre
        /\ IsFile(fs, SnapshotFile(req.a))
        /\ Snapshot(req.a) = resp.persons

\* the same for the uploads that find a detector
C16_SnapshotWithDetector ==
    (Ingested /\ model # "none") =>
        /\ SnapshotFile(req.a) \notin DOMAIN pre
        /\ IsFile(fs, SnapshotFile(req.a))
        /\ Snapshot(req.a) = resp.persons

\* the boxes of the frames on which the detector does not raise
Survivors(video, mdl) ==
    {b \in IF mdl = "track" THEN AcceptedBoxes(video) ELSE DetectedBoxes(video) :
        ~video[b[1]].raises}

\* C17: a failure confined to one frame or one detection (a box that does
\* not convert, a result without image or boxes, the detector failing on the
\* frame) skips only that frame or detection: with a detector, in tracking
\* and in non-tracking mode, the upload ends in success and the crops of the
\* accepted boxes of every other frame are in the session, under the frame
\* index of their frame.
C17_FailureSkipsOnlyItsFrame ==
    (req.op = "upload_video" /\ model # "none") =>
        /\ resp.status = 200
        /\ \A b \in Survivors(Video, model) :
             \E p \in ImagesOf(fs, req.a) : fs[p] = Crop(req.a, b[1] - 1, b[2])

\* the same for the videos on none of whose frames the detector raises
C17_BoxFailuresSkipped ==
    (req.op = "upload_video" /\ model # "none"
        /\ \A n \in 1..Len(Video) : ~Video[n].raises) =>
        /\ resp.status = 200
        /\ \A b \in Survivors(Video, model) :
             \E p \in ImagesOf(fs, req.a) : fs[p] = Crop(req.a, b[1] - 1, b[2])

(***************************************************************************)
(* Promotion: the number of the new entry, what the entry holds.           *)
(***************************************************************************)
\* a confirm_session of a session by its id has just been answered with success
Promoted == req.op = "confirm_session" /\ PlainName(req.a) /\ resp.status = 200

\* the names of the entries of the permanent store that are directories
StoreNames(f) == {p[Len(p)] : p \in {q \in Children(f, PERSONS_DB) : IsDir(f, q)}}

\* the n of the entries named database_<n>: the prefix and decimal digits
StoreNumbers(f) ==
    {DigitsVal(Split(d, "_")[2]) :
        d \in {x \in StoreNames(f) :
                  /\ StartsWith(x, s_database_)
                  /\ Len(Split(x, "_")) = 2
                  /\ Split(x, "_")[2] # <<>>
                  /\ \A i \in 1..Len(Split(x, "_")[2]) : IsDigit(Split(x, "_")[2][i])}}

\* the n the scan of confirm_session reads: the second "_"-separated field of
\* every directory whose name starts with database_, whatever follows it
StoreFields(f) ==
    {IntOf(Split(d, "_")[2]) :
        d \in {x \in StoreNames(f) : StartsWith(x, s_database_) /\ IsInt(Split(x, "_")[2])}}

\* 1 + the largest of ns, 1 when there is none
NumberAfter(ns) == CHOOSE k \in {1} \cup {n + 1 : n \in ns} : k >= 1 /\ \A n \in ns : n < k

\* the session of the request is now the entry database_<k>, which is new
PromotedAs(k) ==
    /\ resp.str = s_persons_url \o s_database_ \o Str(k)
    /\ k \notin StoreNumbers(pre)
    /\ Append(PERSONS_DB, s_database_ \o Str(k)) \notin DOMAIN pre
    /\ IsDir(fs, Append(PERSONS_DB, s_database_ \o Str(k)))
    /\ StoreNumbers(fs) = StoreNumbers(pre) \cup {k}

\* C15: every successful promotion, promotions being served one at a time,
\* creates the entry numbered 1 + the largest number among the numbered
\* entries database_<n> the permanent store holds (1 when it holds none):
\* the number is not that of an existing entry, and it is above the numbers
\* of all the entries there, those of the earlier promotions among them.
C15_NumberAfterLargest == Promoted => PromotedAs(NumberAfter(StoreNumbers(pre)))

\* the number as the scan computes it
C15_NumberAfterField == Promoted => PromotedAs(NumberAfter(StoreFields(pre)))

\* the entry the response names: PERSONS_DB / dest.name
Entry == Append(PERSONS_DB, SubSeq(resp.str, Len(s_persons_url) + 1, Len(resp.str)))

\* path p, which lies in or below folder a, as it is in or below folder b
Rebased(p, a, b) == b \o SubSeq(p, Len(a) + 1, Len(p))

\* C20: a successful promotion of session S, no other promotion running,
\* moves S wholesale.  The entry it names is new and holds exactly what the
\* session folder held, every group, image and the snapshot, each under the
\* same relative path and with the same content; nothing is left of S in the
\* temporary store; and everything else, every dataset entry and every other
\* session that was there before, is as it was.
C20_PromoteMovesWholesale ==
    Promoted =>
        /\ Entry \notin DOMAIN pre
        /\ SessionPaths(fs, req.a) = {}
        /\ {p \in DOMAIN fs : IsPrefix(Entry, p)}
             = {Rebased(p, SessionDir(req.a), Entry) : p \in SessionPaths(pre, req.a)}
        /\ \A p \in SessionPaths(pre, req.a) :
             fs[Rebased(p, SessionDir(req.a), Entry)] = pre[p]
        /\ {p \in DOMAIN fs : ~IsPrefix(Entry, p)}
             = {p \in DOMAIN pre : ~IsPrefix(SessionDir(req.a), p)}
        /\ \A p \in DOMAIN pre : ~IsPrefix(SessionDir(req.a), p) => fs[p] = pre[p]

\* a session with an image and a snapshot is promoted while the store holds
\* an entry and the temporary store another session with an image
C20_Witness ==
    /\ Promoted
    /\ ImagesOf(pre, req.a) # {}
    /\ IsFile(pre, SnapshotFile(req.a))
    /\ StoreNames(pre) # {}
    /\ \E s \in issued \ {req.a} : ImagesOf(pre, s) # {} /\ ImagesOf(fs, s) = ImagesOf(pre, s)
    /\ Cardinality({p \in DOMAIN fs : IsPrefix(Entry, p)})
         = Cardinality(SessionPaths(pre, req.a))

(***************************************************************************)
(* Handlers running at the same time: two promotions, two create-group     *)
(* calls.                                                                  *)
(***************************************************************************)
\* threads t and u have each promoted a session, two different sessions,
\* with success, and their scans had found the same number
SameIndex(t, u) ==
    /\ t # u
    /\ At(t, "confirm_session", "done") /\ At(u, "confirm_session", "done")
    /\ calls[t].status = 200 /\ calls[u].status = 200
    /\ calls[t].session_id # calls[u].session_id
    /\ calls[t].n = calls[u].n

\* the folder the promotion of thread t has moved its session to is an entry
\* of the permanent store: a folder right below it
OccupiesEntry(t) == \E e \in calls[t].made : Parent(e) = PERSONS_DB /\ IsDir(fs, e)

\* C18: the scan and the move of a promotion are separate steps and no lock
\* is held: two promotions of two different sessions can both compute the
\* same next index, and whenever they do, the two sessions do not come to
\* occupy two distinct numbered entries.  The second move targets the entry
\* the first one has made: both responses name database_<n>, the store has
\* one entry of that number, and the second session has gone inside it or
\* has taken its place.
C18_SameIndexSameEntry ==
    \A t, u \in Threads :
        SameIndex(t, u) =>
            /\ calls[t].ret = calls[u].ret
            /\ ~(OccupiesEntry(t) /\ OccupiesEntry(u) /\ calls[t].made # calls[u].made)
            /\ \/ calls[t].made = {Append(RaceDest(fs, calls[t].n), calls[t].session_id)}
               \/ calls[u].made = {Append(RaceDest(fs, calls[u].n), calls[u].session_id)}
               \/ calls[t].made = calls[u].made

\* two promotions have found the same number and both answered success: the
\* session of the second lies inside the entry of the first
C18_Witness ==
    \E t, u \in Threads :
        /\ SameIndex(t, u)
        /\ calls[t].made = {RaceDest(fs, calls[t].n)}
        /\ calls[u].made = {Append(RaceDest(fs, calls[t].n), calls[u].session_id)}
        /\ IsDir(fs, Append(RaceDest(fs, calls[t].n), calls[u].session_id))
        /\ ImagesOf(fs, calls[u].session_id) = {}
        /\ StoreNames(fs) = {s_database_ \o Str(calls[t].n)}

\* two promotions have found the same number and both answered success: the
\* second has replaced the entry of the first, an empty session
C18_WitnessReplaced ==
    \E t, u \in Threads :
        /\ SameIndex(t, u)
        /\ calls[t].made = calls[u].made

\* thread t has created a group with success
CreatedGroup(t) == At(t, "add_person", "done") /\ calls[t].status = 200

\* C19: however create-group calls on one session interleave, at most one
\* of them succeeds for a given group name: two calls that have supplied or
\* computed the same name never both return success.  The names successful
\* calls on one session return are pairwise distinct, and each names a group
\* that its call has created itself: the folder was not there before its
\* mkdir and is there after.
C19_OneCreatorPerName ==
    /\ \A t \in Threads :
         CreatedGroup(t) =>
            /\ calls[t].made = {GroupDir(calls[t].session_id, calls[t].ret)}
            /\ IsDir(fs, GroupDir(calls[t].session_id, calls[t].ret))
    /\ \A t, u \in Threads :
         (t # u /\ CreatedGroup(t) /\ CreatedGroup(u)
             /\ calls[t].session_id = calls[u].session_id) =>
            /\ calls[t].ret # calls[u].ret
            /\ calls[t].new_name # calls[u].new_name

\* two calls without a name on one session have computed the same name and
\* both have found it free: one has created the group, the mkdir of the
\* other has raised
C19_Witness ==
    \E t, u \in Threads :
        /\ t # u
        /\ CreatedGroup(t)
        /\ At(u, "add_person", "done")
        /\ calls[u].session_id = calls[t].session_id
        /\ calls[u].name = <<>> /\ calls[t].name = <<>>
        /\ calls[u].new_name = calls[t].new_name
        /\ calls[u].status = 500
        /\ calls[u].made = {}

\* the same for a name supplied twice, once with blanks
C19_WitnessSupplied ==
    \E t, u \in Threads :
        /\ t # u
        /\ CreatedGroup(t)
        /\ At(u, "add_person", "done")
        /\ calls[u].session_id = calls[t].session_id
        /\ calls[u].name # calls[t].name
        /\ calls[u].new_name = calls[t].new_name
        /\ calls[u].status = 500

====
